---- MODULE Spec2Model ----
(***************************************************************************)
(* The signaling relay of the whiteboard (the WebSocket Lambda handler and *)
(* its DynamoDB rooms table).  Every Lambda invocation is a little process *)
(* whose steps are the handler's awaits: each store call and each          *)
(* broadcast is one step, so that invocations of different connections     *)
(* interleave exactly where the code yields.                               *)
(*                                                                         *)
(* The store is taken to be linearizable per operation; a store call may   *)
(* fail (throw) at any time.  A connection has at most one message         *)
(* invocation in flight, plus the $disconnect invocation of its close.     *)
(***************************************************************************)
EXTENDS Integers, FiniteSets, Sequences, TLC

\* ---------------------------------------------------------------- bounds
\* Connections that send requests.  The others are the residents: they have
\* joined room r1 one after the other, one short of the limit, and listen.
\* Room r2 starts empty.
NumActive == 2
\* How many of them may close while requests of several connections are in
\* flight at once.
NumClosing == 1
\* Calls of ErrorHandler.initiateReconnection that may be under way at once.
NumRuns == 2
\* Operations a client queues in all.
NumOps == 3
\* this.maxOfflineOperations, 1000 in the source, scaled down so that the
\* queue fills.
MaxOfflineOperations == 2
\* RTCPeerConnections a WebRTCManager creates in all.
NumPcs == 3
\* Calls of connect, disconnect and destroy a WhiteboardCore sees in all.
NumCalls == 4
\* Times the clock is moved past the expiry of the records written so far.
MaxTicks == 1
\* Applications of one operation the engine's document tells apart.
MaxTimes == 2
\* WebSockets a React SignalingService creates in all.
NumSockets == 3
\* ICE candidates a peer connection emits.
NumCandidates == 1

\* ------------------------------------------------------------- constants
\* if (roomUsers.length >= 8)
MaxRoomSize == 8
\* 24 * 60 * 60, the ttl of a record in seconds
TtlSeconds == 86400
\* this.maxReconnectionAttempts = 10
MaxReconnectionAttempts == 10
\* this.syncRetryAttempts = 3
SyncRetryAttempts == 3
\* private maxReconnectAttempts = 5
MaxReconnectAttempts == 5

Residents == 1..(MaxRoomSize - 1)
Actives == MaxRoomSize..(MaxRoomSize - 1 + NumActive)
Closing == MaxRoomSize..(MaxRoomSize - 1 + NumClosing)
Conns == Residents \cup Actives
\* The room the residents have filled up to one short of the limit, and the
\* room that starts empty.
FullRoom == "r1"
FreeRoom == "r2"
Rooms == {FullRoom, FreeRoom}
Users == {"alice", "bob"}
ResidentUser == "carol"
\* a field the message does not carry
Null == "null"

VARIABLES
    store,      \* the rooms table: a set of RoomConnection items
    now,        \* Math.floor(Date.now() / 1000)
    alive,      \* alive[c]: the transport of connection c is open
    msg,        \* msg[c]: the message invocation of connection c
    disc,       \* disc[c]: the $disconnect invocation of connection c
    lastList,   \* lastList[r]: the users of the last user-list sent for r
    lastLeft,   \* lastLeft[c]: the room c left with its latest request, if it was a leave-room
    peak,       \* peak[r]: most join-room invocations at once between guard and put
    eh,         \* the ErrorHandler of one client, and its calls of initiateReconnection
    sync,       \* the OfflineSyncManager of one client, its timers, and the engine's document
    rtc,        \* the WebRTCManager of one client and the peer connections it made
    core,       \* the WhiteboardCore of one client and its calls of connect
    react,      \* the SignalingService of one React client and its WebSockets
    pair        \* two WebRTCManagers, each other's remote user, and the messages between them

\* the state of one client's components
client == <<eh, sync, rtc, core, react, pair>>

vars == <<store, now, alive, msg, disc, lastList, lastLeft, peak, client>>

Max(a, b) == IF a >= b THEN a ELSE b

\* ----------------------------------------------------------------- store
\* The table's primary key is (roomId, connectionId): a put replaces the
\* item of the same key.
PutItemKeepsOld(S, item) == S \cup {item}

PutItem(S, item) ==
    {x \in S : ~(x.roomId = item.roomId /\ x.connectionId = item.connectionId)}
        \cup {item}

DeleteItemNone(S, r, c) == S

DeleteItem(S, r, c) == {x \in S : ~(x.roomId = r /\ x.connectionId = c)}

\* getRoomUsers: the query on the partition key
RoomUsers(r) == {x \in store : x.roomId = r}

\* the query on connectionId-index
ConnectionItems(c) == {x \in store : x.connectionId = c}

ConnsOf(S) == {x.connectionId : x \in S}

\* connection c has a record in room r
Holds(c, r) == \E x \in store : x.roomId = r /\ x.connectionId = c

\* updatedUsers.map(user => ({ userId, connectionId }))
UserList(S) == {[userId |-> x.userId, connectionId |-> x.connectionId] : x \in S}

RoomConnection(r, c, u) ==
    [roomId |-> r, connectionId |-> c, userId |-> u, ttl |-> now + TtlSeconds]

\* ------------------------------------------------------------------ JSON
\* The texts a client may put in the signal field of its message body, and
\* the values JavaScript makes of them.  A value is its kind and the text
\* JSON.stringify would print for it, but for the number beyond the range
\* of a double, which JSON.parse reads as Infinity.
JsonTexts ==
    {"{\"type\":\"offer\"}", "{ \"type\" : \"offer\" }", "\"candidate\"",
     "0", "1e400", "null"}

Undefined == [kind |-> "undefined", repr |-> ""]

\* const message: SignalingMessage = JSON.parse(body), on the signal field
JsonParse(text) ==
    CASE text \in {"{\"type\":\"offer\"}", "{ \"type\" : \"offer\" }"}
              -> [kind |-> "object", repr |-> "{\"type\":\"offer\"}"]
      [] text = "\"candidate\"" -> [kind |-> "string", repr |-> text]
      [] text = "0" -> [kind |-> "number", repr |-> "0"]
      [] text = "1e400" -> [kind |-> "number", repr |-> "Infinity"]
      [] OTHER -> [kind |-> "null", repr |-> "null"]

\* JSON.stringify prints a number that is not finite as null
JsonStringifyNull(v) == "null"

JsonStringify(v) == IF v.kind = "number" /\ v.repr = "Infinity" THEN "null" ELSE v.repr

\* !message.signal is false
Truthy(v) == v.kind \in {"object", "string"} \/ (v.kind = "number" /\ v.repr # "0")

\* --------------------------------------------------------- ErrorHandler
Runs == 1..NumRuns

\* a call of initiateReconnection: what it was called for, where it
\* stands, the calls of attemptReconnection it has made, and how it has ended
NoRun == [reason |-> "none", pc |-> "idle", made |-> 0, ended |-> "no"]

\* --------------------------------------------------- OfflineSyncManager
OpIds == 1..NumOps

\* The operation type a client queues here. syncSingleOperation treats the
\* types alike but for the component it calls, see Target.
OpKinds == {"drawing-stroke"}

\* an operation object that is not created yet; times counts what the
\* collaboration engine or the presence manager holds of it: the calls of
\* syncSingleOperation for it that returned
NoOp == [type |-> "none", status |-> "none", retryCount |-> 0, times |-> 0]

\* --------------------------------------------------------- WebRTCManager
Pcs == 1..NumPcs

\* an RTCPeerConnection that is not created yet; left counts the awaits the
\* call that creates it has before it
NoPc == [userId |-> Null, state |-> "none", role |-> "none", left |-> 0]

\* ------------------------------------------ SignalingService (React)
Sockets == 1..NumSockets

\* ------------------------------------------------------- a pair of peers
\* A WebRTCManager that holds no connection for the other peer. role is
\* what the connection was made for, left the awaits its making call has
\* before it, local and remote the descriptions set, cands the candidates
\* emitted and added the remote candidates taken.
NoPeer == [role |-> "none", left |-> 0, local |-> FALSE, remote |-> FALSE,
           cands |-> 0, added |-> 0]

\* ----------------------------------------------------------- invocations
NoData == [to |-> 0, type |-> "none", fromUserId |-> Null, signal |-> ""]

IdleMsg ==
    [pc |-> "idle", type |-> "none", roomId |-> Null, userId |-> Null,
     seenN |-> 0, held |-> FALSE, roster |-> {}, recips |-> {},
     posted |-> {}, failed |-> {}, toPrune |-> {}, status |-> 0, error |-> "",
     targetUserId |-> Null, signalText |-> Null, signal |-> Undefined,
     to |-> 0, data |-> NoData]

NoDisc == [pc |-> "none", items |-> {}, found |-> {}, err |-> FALSE, status |-> 0]

\* an invocation is in flight from its start until its response is returned
InFlight(c) == msg[c].pc # "idle"
DiscInFlight(c) == disc[c].pc \in {"delete", "done"}
Quiet == \A c \in Actives : ~InFlight(c) /\ ~DiscInFlight(c)

Reply(m, st, err) == [m EXCEPT !.pc = "done", !.status = st, !.error = err]

Init ==
    /\ store = {[roomId |-> FullRoom, connectionId |-> i, userId |-> ResidentUser,
                  ttl |-> TtlSeconds] : i \in Residents}
    /\ now = 0
    /\ alive = [c \in Conns |-> TRUE]
    /\ msg = [c \in Actives |-> IdleMsg]
    /\ disc = [c \in Actives |-> NoDisc]
    /\ lastList = [r \in Rooms |->
                     [sent |-> RoomUsers(r) # {}, users |-> UserList(RoomUsers(r))]]
    /\ lastLeft = [c \in Actives |-> Null]
    /\ peak = [r \in Rooms |-> 0]
    /\ eh = [isReconnecting |-> FALSE, reconnectionAttempts |-> 0,
             run |-> [r \in Runs |-> NoRun]]
    /\ sync = [isOnline |-> TRUE, syncQueue |-> <<>>,
               op |-> [i \in OpIds |-> NoOp], created |-> 0,
               timers |-> {}, syncTimer |-> FALSE]
    /\ rtc = [connections |-> [u \in Users |-> 0],
              pc |-> [p \in Pcs |-> NoPc], created |-> 0, sent |-> {},
              last |-> [op |-> "none", userId |-> Null, existed |-> FALSE]]
    /\ core = [isInitialized |-> FALSE, destroyed |-> FALSE, connecting |-> 0,
               connects |-> 0, connected |-> FALSE,
               last |-> [n |-> 0, op |-> "none", result |-> "none"]]
    /\ react = [ws |-> 1, socket |-> [k \in Sockets |-> IF k = 1 THEN "connecting" ELSE "none"],
                created |-> 1, reconnectAttempts |-> 0, timers |-> 0,
                joins |-> 0, disconnected |-> FALSE]
    /\ pair = [peer |-> [a \in Users |-> NoPeer], net |-> {}]

\* ------------------------------------------------------------ join-room
\* roomUsers.length >= 8
RoomIsFullOffByOne(n) == n > MaxRoomSize

RoomIsFullNever(n) == FALSE

RoomIsFull(n) == n >= MaxRoomSize

\* broadcastToRoom's excludeConnections: none on join, the leaver on leave
Excluded(type, c) == IF type = "leave-room" THEN {c} ELSE {}

\* users.filter(user => !excludeConnections.includes(user.connectionId))
RecipientsSkipSender(users, type, c) == ConnsOf(users) \ {c}

Recipients(users, type, c) == ConnsOf(users) \ Excluded(type, c)

\* The handler is entered with a join-room message: the field check.
JoinRoom(c, r, u) ==
    /\ alive[c] /\ ~InFlight(c)
    /\ LET m == [IdleMsg EXCEPT !.type = "join-room", !.roomId = r, !.userId = u]
       IN msg' = [msg EXCEPT ![c] =
                    IF r = Null \/ u = Null
                    THEN Reply(m, 400, "Missing roomId or userId")
                    ELSE [m EXCEPT !.pc = "jr_check"]]
    /\ UNCHANGED <<store, now, alive, disc>>

\* const roomUsers = await getRoomUsers(roomId); the capacity guard
JoinCheck(c) ==
    /\ msg[c].pc = "jr_check"
    /\ LET r == msg[c].roomId
           roomUsers == RoomUsers(r)
           m == [msg[c] EXCEPT !.seenN = Cardinality(roomUsers)]
       IN IF RoomIsFull(Cardinality(roomUsers))
          THEN msg' = [msg EXCEPT ![c] = Reply(m, 400, "Room is full")]
          ELSE msg' = [msg EXCEPT ![c] = [m EXCEPT !.pc = "jr_put"]]
    /\ UNCHANGED <<store, now, alive, disc>>

\* await docClient.send(new PutCommand(...))
JoinPut(c) ==
    /\ msg[c].pc = "jr_put"
    /\ store' = PutItem(store, RoomConnection(msg[c].roomId, c, msg[c].userId))
    /\ msg' = [msg EXCEPT ![c].pc = "roster", ![c].held = Holds(c, msg[c].roomId)]
    /\ UNCHANGED <<now, alive, disc>>

\* ----------------------------------------------------------- leave-room
LeaveRoomUnchecked(c, r) ==
    /\ alive[c] /\ ~InFlight(c)
    /\ msg' = [msg EXCEPT ![c] =
                 [IdleMsg EXCEPT !.type = "leave-room", !.roomId = r, !.pc = "lr_delete"]]
    /\ UNCHANGED <<store, now, alive, disc>>

LeaveRoom(c, r) ==
    /\ alive[c] /\ ~InFlight(c)
    /\ LET m == [IdleMsg EXCEPT !.type = "leave-room", !.roomId = r]
       IN msg' = [msg EXCEPT ![c] =
                    IF r = Null
                    THEN Reply(m, 400, "Missing roomId")
                    ELSE [m EXCEPT !.pc = "lr_delete"]]
    /\ UNCHANGED <<store, now, alive, disc>>

\* await docClient.send(new DeleteCommand(...))
LeaveKeepsRecord(c) ==
    /\ msg[c].pc = "lr_delete"
    /\ msg' = [msg EXCEPT ![c].pc = "roster"]
    /\ UNCHANGED <<store, now, alive, disc>>

LeaveDelete(c) ==
    /\ msg[c].pc = "lr_delete"
    /\ store' = DeleteItem(store, msg[c].roomId, c)
    /\ msg' = [msg EXCEPT ![c].pc = "roster", ![c].held = Holds(c, msg[c].roomId)]
    /\ UNCHANGED <<now, alive, disc>>

\* ------------------------------------------- roster and broadcastToRoom
\* const updatedUsers / remainingUsers = await getRoomUsers(roomId)
RosterRead(c) ==
    /\ msg[c].pc = "roster"
    /\ msg' = [msg EXCEPT ![c].roster = UserList(RoomUsers(msg[c].roomId)),
                          ![c].pc = "bc_read"]
    /\ UNCHANGED <<store, now, alive, disc>>

\* broadcastToRoom: const users = await getRoomUsers(roomId), then the filter
BroadcastRead(c) ==
    /\ msg[c].pc = "bc_read"
    /\ msg' = [msg EXCEPT
                 ![c].recips = Recipients(RoomUsers(msg[c].roomId), msg[c].type, c),
                 ![c].pc = "bc_send"]
    /\ UNCHANGED <<store, now, alive, disc>>

\* The recipients whose failed post leaves a delete to do: those whose
\* connection is gone (error.statusCode === 410), and not those of lost,
\* whose post failed in another way.
StaleOrFailed(to, lost) == {d \in to : ~alive[d]} \cup lost

Stale(to, lost) == {d \in to : ~alive[d]}

\* The map issues one PostToConnection per recipient; a post to a closed
\* connection fails with 410 and leaves that recipient's delete to do.  The
\* posts to the open connections of lost fail in another way and are only
\* logged.
BroadcastSendWith(c, lost) ==
    /\ msg[c].pc = "bc_send"
    /\ lost \subseteq {d \in msg[c].recips : alive[d]}
    /\ LET to == msg[c].recips
           gone == Stale(to, lost)
           m == [msg[c] EXCEPT !.posted = to, !.failed = lost, !.toPrune = gone,
                               !.recips = {}]
       IN msg' = [msg EXCEPT ![c] =
                    IF gone = {} THEN Reply(m, 200, "")
                    ELSE [m EXCEPT !.pc = "bc_prune"]]
    /\ UNCHANGED <<store, now, alive, disc>>

\* every post reaches its connection unless the connection is closed
BroadcastSend(c) == BroadcastSendWith(c, {})

\* if (error.statusCode === 410) await docClient.send(new DeleteCommand(...))
BroadcastPruneEscalates(c, d) ==
    /\ msg[c].pc = "bc_prune"
    /\ d \in msg[c].toPrune
    /\ msg' = [msg EXCEPT ![c] = Reply(msg[c], 500, "Internal server error")]
    /\ UNCHANGED <<store, now, alive, disc>>

BroadcastPrune(c, d) ==
    /\ msg[c].pc = "bc_prune"
    /\ d \in msg[c].toPrune
    /\ store' = DeleteItem(store, msg[c].roomId, d)
    /\ LET m == [msg[c] EXCEPT !.toPrune = @ \ {d}]
       IN msg' = [msg EXCEPT ![c] =
                    IF m.toPrune = {} THEN Reply(m, 200, "") ELSE m]
    /\ UNCHANGED <<now, alive, disc>>

\* ---------------------------------------------------------------- signal
\* The handler is entered with a signal message: the field check.  The
\* message carries the target, the userId the client claims and the signal.
Signal(c, t, u, p) ==
    /\ alive[c] /\ ~InFlight(c)
    /\ LET v == IF p = Null THEN Undefined ELSE JsonParse(p)
           m == [IdleMsg EXCEPT !.type = "signal", !.userId = u, !.targetUserId = t,
                                !.signalText = p, !.signal = v]
       IN msg' = [msg EXCEPT ![c] =
                    IF t = Null \/ ~Truthy(v)
                    THEN Reply(m, 400, "Missing targetUserId or signal data")
                    ELSE [m EXCEPT !.pc = "sg_scan"]]
    /\ UNCHANGED <<store, now, alive, disc>>

\* The scan over the whole table, filtered on userId
TargetItemsUnfiltered(t) == store

TargetItems(t) == {x \in store : x.userId = t}

\* targetConnections.Items[0]: the scan returns the items in no order the
\* code controls
SignalScan(c) ==
    /\ msg[c].pc = "sg_scan"
    /\ LET items == TargetItems(msg[c].targetUserId)
       IN IF items = {}
          THEN msg' = [msg EXCEPT ![c] = Reply(msg[c], 404, "Target user not found")]
          ELSE \E x \in items :
                  msg' = [msg EXCEPT ![c].to = x.connectionId, ![c].pc = "sg_post"]
    /\ UNCHANGED <<store, now, alive, disc>>

\* await apiGatewayManagementApi.send(new PostToConnectionCommand(...)) in
\* its try: the post to a closed connection throws and the catch answers 500
SignalPost(c) ==
    /\ msg[c].pc = "sg_post"
    /\ LET d == [to |-> msg[c].to, type |-> "signal",
                 fromUserId |-> msg[c].userId,
                 signal |-> JsonStringify(msg[c].signal)]
       IN msg' = [msg EXCEPT ![c] =
                    IF alive[msg[c].to]
                    THEN Reply([msg[c] EXCEPT !.data = d], 200, "")
                    ELSE Reply(msg[c], 500, "Failed to forward signal")]
    /\ UNCHANGED <<store, now, alive, disc>>

\* --------------------------------------------------------------- rejects
\* if (!body) return 400
NoBody(c) ==
    /\ alive[c] /\ ~InFlight(c)
    /\ msg' = [msg EXCEPT ![c] = Reply(IdleMsg, 400, "Missing message body")]
    /\ UNCHANGED <<store, now, alive, disc>>

\* JSON.parse(body) throws on a body that is no JSON: the handler's catch
Unparseable(c) ==
    /\ alive[c] /\ ~InFlight(c)
    /\ msg' = [msg EXCEPT ![c] = Reply(IdleMsg, 500, "Internal server error")]
    /\ UNCHANGED <<store, now, alive, disc>>

\* handleSignal's default case
UnknownType(c) ==
    /\ alive[c] /\ ~InFlight(c)
    /\ msg' = [msg EXCEPT ![c] =
                 Reply([IdleMsg EXCEPT !.type = "unknown"], 400, "Unknown message type")]
    /\ UNCHANGED <<store, now, alive, disc>>

\* ---------------------------------------------------------- the clients
\* The messages the WebRTCManager of a client sends through its signaling
\* service, and the handler each type is registered for.
WebRTCKinds == {"webrtc-offer", "webrtc-answer", "webrtc-ice-candidate"}

\* setupSignalingHandlers and SignalingService.handleMessage: the handler
\* registered for the type of an incoming message, if there is one
ClientHandler(type) ==
    CASE type = "webrtc-offer" -> "handleOffer"
      [] type = "webrtc-answer" -> "handleAnswer"
      [] type = "webrtc-ice-candidate" -> "handleIceCandidate"
      [] type = "user-joined" -> "initiateConnection"
      [] type = "user-left" -> "closeConnection"
      [] OTHER -> "unhandled"

\* signalingService.send({ type: k, toUserId: u, ... }) of connection c, as
\* handleSignal takes it: k is none of its cases
WebRTCSend(c, k, u) ==
    /\ alive[c] /\ ~InFlight(c)
    /\ msg' = [msg EXCEPT ![c] =
                 Reply([IdleMsg EXCEPT !.type = k, !.targetUserId = u],
                       400, "Unknown message type")]
    /\ UNCHANGED <<store, now, alive, disc>>

\* A store call of the invocation throws: the handler's catch answers 500.
\* What the invocation had still to do is abandoned with it, and of its
\* locals only the posts it has made are of any consequence.
StoreCalls == {"jr_check", "jr_put", "lr_delete", "roster", "bc_read", "bc_prune", "sg_scan"}

StoreErrorAnswersOk(c) ==
    /\ msg[c].pc \in StoreCalls
    /\ msg' = [msg EXCEPT ![c] = Reply(msg[c], 200, "Internal server error")]
    /\ UNCHANGED <<store, now, alive, disc>>

StoreError(c) ==
    /\ msg[c].pc \in StoreCalls
    /\ msg' = [msg EXCEPT ![c] =
                 Reply([IdleMsg EXCEPT !.type = msg[c].type, !.roomId = msg[c].roomId,
                                       !.userId = msg[c].userId, !.posted = msg[c].posted,
                                       !.targetUserId = msg[c].targetUserId],
                       500, "Internal server error")]
    /\ UNCHANGED <<store, now, alive, disc>>

\* The handler's result goes back to API Gateway: the invocation is over.
Return(c) ==
    /\ msg[c].pc = "done"
    /\ msg' = [msg EXCEPT ![c] = IdleMsg]
    /\ UNCHANGED <<store, now, alive, disc>>

\* ------------------------------------------------------------ disconnect
\* The transport of c closes; API Gateway will invoke $disconnect.
Close(c) ==
    /\ alive[c]
    /\ alive' = [alive EXCEPT ![c] = FALSE]
    /\ disc' = [disc EXCEPT ![c].pc = "pending"]
    /\ UNCHANGED <<store, now, msg>>

\* const result = await docClient.send(new QueryCommand(connectionId-index))
DisconnectQuery(c) ==
    /\ disc[c].pc = "pending"
    /\ LET rooms == {x.roomId : x \in ConnectionItems(c)}
       IN disc' = [disc EXCEPT ![c] =
                     [pc |-> IF rooms = {} THEN "done" ELSE "delete",
                      items |-> rooms, found |-> rooms, err |-> FALSE,
                      status |-> IF rooms = {} THEN 200 ELSE 0]]
    /\ UNCHANGED <<store, now, alive, msg>>

\* for (const item of result.Items) await docClient.send(new DeleteCommand(...))
RestAfterFirstOnly(items, r) == {}

RestAfter(items, r) == items \ {r}

DisconnectDelete(c, r) ==
    /\ disc[c].pc = "delete"
    /\ r \in disc[c].items
    /\ store' = DeleteItem(store, r, c)
    /\ LET rest == RestAfter(disc[c].items, r)
       IN disc' = [disc EXCEPT ![c].items = rest,
                               ![c].pc = IF rest = {} THEN "done" ELSE "delete",
                               ![c].status = IF rest = {} THEN 200 ELSE 0]
    /\ UNCHANGED <<now, alive, msg>>

\* catch (error) { console.error(...) }; return { statusCode: 200 }
DisconnectError(c) ==
    /\ disc[c].pc \in {"pending", "delete"}
    /\ disc' = [disc EXCEPT ![c].pc = "done", ![c].err = TRUE, ![c].status = 200,
                            ![c].items = {}]
    /\ UNCHANGED <<store, now, alive, msg>>

\* return { statusCode: 200 }: the connection is closed for good
DisconnectReturn(c) ==
    /\ disc[c].pc = "done"
    /\ disc' = [disc EXCEPT ![c] = [NoDisc EXCEPT !.pc = "closed"]]
    /\ UNCHANGED <<store, now, alive, msg>>

\* ------------------------------------------- ErrorHandler: reconnection
relay == <<store, now, alive, msg, disc, lastList, lastLeft, peak>>

\* reconnectionFailed(), at the end of call r
ReconnectionFailed(e, r) ==
    [e EXCEPT !.isReconnecting = FALSE,
              !.run[r].pc = "ended", !.run[r].ended = "failed"]

\* reconnectionSuccess(), and the return that follows it
ReconnectionSuccess(e, r) ==
    [e EXCEPT !.isReconnecting = FALSE, !.reconnectionAttempts = 0,
              !.run[r].pc = "ended", !.run[r].ended = "success"]

\* The head of the while loop, up to await this.attemptReconnection()
LoopHead(e, r) ==
    IF e.reconnectionAttempts < MaxReconnectionAttempts /\ e.isReconnecting
    THEN [e EXCEPT !.reconnectionAttempts = @ + 1,
                   !.run[r].pc = "attempt", !.run[r].made = @ + 1]
    ELSE ReconnectionFailed(e, r)

\* if (this.isReconnecting) that never returns
AlreadyReconnectingNever(e) == FALSE

\* if (this.isReconnecting) return
AlreadyReconnecting(e) == e.isReconnecting

\* initiateReconnection(reason) is called: up to its first await
Initiate(e, r) ==
    IF AlreadyReconnecting(e)
    THEN [e EXCEPT !.run[r].pc = "ended", !.run[r].ended = "guard"]
    ELSE LoopHead([e EXCEPT !.isReconnecting = TRUE, !.reconnectionAttempts = 0], r)

InitiateReconnection(r) ==
    /\ eh.run[r].pc = "idle"
    /\ eh' = Initiate([eh EXCEPT !.run[r].reason = "event"], r)
    /\ UNCHANGED <<relay, sync, rtc, core, react, pair>>

\* attemptReconnection() settles: resolved with the connection healthy, or
\* resolved with it not healthy, or rejected; then the delay, up to
\* await this.sleep(delay)
AttemptSettles(r, healthy) ==
    /\ eh.run[r].pc = "attempt"
    /\ eh' = IF healthy THEN ReconnectionSuccess(eh, r)
                        ELSE [eh EXCEPT !.run[r].pc = "sleep"]
    /\ UNCHANGED <<relay, sync, rtc, core, react, pair>>

\* the sleep is over: back to the head of the loop
SleepOver(r) ==
    /\ eh.run[r].pc = "sleep"
    /\ eh' = LoopHead(eh, r)
    /\ UNCHANGED <<relay, sync, rtc, core, react, pair>>

\* stopReconnection()
StopReconnection ==
    /\ eh.isReconnecting
    /\ eh' = [eh EXCEPT !.isReconnecting = FALSE]
    /\ UNCHANGED <<relay, sync, rtc, core, react, pair>>

\* forceReconnect(): stopReconnection(), then initiateReconnection('manual')
ForceReconnect(r) ==
    /\ eh.run[r].pc = "idle"
    /\ eh' = Initiate([eh EXCEPT !.isReconnecting = FALSE, !.run[r].reason = "manual"], r)
    /\ UNCHANGED <<relay, sync, rtc, core, react, pair>>

\* ------------------------------------------------ OfflineSyncManager
\* The component syncSingleOperation calls for an operation type.
Target(type) ==
    CASE type \in {"drawing-stroke", "drawing-shape", "drawing-delete",
                   "text-insert", "text-delete", "cursor-update"} -> "engine"
      [] type = "presence-update" -> "presence"
      [] type = "yjs-transaction" -> "log"
      [] OTHER -> "none"

\* this.syncQueue.shift() that drops the wrong end
EnforceLimitDropsNewest(q) ==
    IF Len(q) > MaxOfflineOperations THEN SubSeq(q, 1, Len(q) - 1) ELSE q

\* Enforce queue size limit
EnforceLimit(q) ==
    IF Len(q) > MaxOfflineOperations THEN Tail(q) ELSE q

\* queueOfflineOperation(operation): operation i is created, pushed, and
\* the limit enforced.
QueueOfflineOperation(type) ==
    /\ sync.created < NumOps
    /\ LET i == sync.created + 1
       IN sync' = [sync EXCEPT
              !.created = i,
              !.op[i] = [type |-> type, status |-> "pending", retryCount |-> 0,
                         times |-> 0],
              !.syncQueue = EnforceLimit(Append(@, i))]
    /\ UNCHANGED <<relay, eh, rtc, core, react, pair>>

\* syncSingleOperation(operation) has returned: the component it calls
\* has the operation once more.
Applied(o) ==
    IF Target(o.type) \in {"engine", "presence"} /\ o.times < MaxTimes
    THEN [o EXCEPT !.times = @ + 1] ELSE o

InQueue(s) == {s.syncQueue[k] : k \in 1..Len(s.syncQueue)}

Pending(s) == {i \in InQueue(s) : s.op[i].status = "pending"}

\* syncOfflineOperations(): syncSingleOperation throws for the operations
\* in fails. No await of the loop waits for anything but its own
\* continuation, so no event or timer runs in between.
SyncOfflineOperations(s, fails) ==
    IF ~s.isOnline \/ Len(s.syncQueue) = 0 THEN s
    ELSE LET pendingOps == Pending(s)
             after == [i \in OpIds |->
                 IF i \notin pendingOps THEN s.op[i]
                 ELSE IF i \notin fails
                 THEN [Applied(s.op[i]) EXCEPT !.status = "completed"]
                 ELSE [s.op[i] EXCEPT
                          !.retryCount = @ + 1,
                          !.status = IF s.op[i].retryCount + 1 >= SyncRetryAttempts
                                     THEN "failed" ELSE "pending"]]
             keep(i) == after[i].status # "completed"
         IN [s EXCEPT
                !.op = after,
                !.timers = @ \cup {i \in pendingOps \cap fails : after[i].status = "pending"},
                !.syncQueue = SelectSeq(@, keep)]

\* window 'online'
Online ==
    /\ ~sync.isOnline
    /\ \E fails \in SUBSET Pending(sync) :
          sync' = SyncOfflineOperations([sync EXCEPT !.isOnline = TRUE], fails)
    /\ UNCHANGED <<relay, eh, rtc, core, react, pair>>

\* window 'offline'
Offline ==
    /\ sync.isOnline
    /\ sync' = [sync EXCEPT !.isOnline = FALSE]
    /\ UNCHANGED <<relay, eh, rtc, core, react, pair>>

\* forceSyncNow()
ForceSyncNow ==
    /\ \E fails \in SUBSET Pending(sync) :
          sync' = IF sync.isOnline THEN SyncOfflineOperations(sync, fails) ELSE sync
    /\ UNCHANGED <<relay, eh, rtc, core, react, pair>>

\* retryFailedOperations()
RetryFailedOperations ==
    /\ LET reset == [sync EXCEPT !.op = [i \in OpIds |->
                        IF i \in InQueue(sync) /\ sync.op[i].status = "failed"
                        THEN [sync.op[i] EXCEPT !.status = "pending", !.retryCount = 0]
                        ELSE sync.op[i]]]
       IN \E fails \in SUBSET Pending(reset) :
              sync' = IF reset.isOnline THEN SyncOfflineOperations(reset, fails) ELSE reset
    /\ UNCHANGED <<relay, eh, rtc, core, react, pair>>

\* handleSyncStatus(synced): setTimeout(() => this.syncOfflineOperations(), 1000)
HandleSyncStatus(synced) ==
    /\ sync' = IF synced /\ sync.isOnline THEN [sync EXCEPT !.syncTimer = TRUE] ELSE sync
    /\ UNCHANGED <<relay, eh, rtc, core, react, pair>>

\* the timer of handleSyncStatus fires
SyncTimer ==
    /\ sync.syncTimer
    /\ \E fails \in SUBSET Pending(sync) :
          sync' = SyncOfflineOperations([sync EXCEPT !.syncTimer = FALSE], fails)
    /\ UNCHANGED <<relay, eh, rtc, core, react, pair>>

\* The retry timer of operation i fires: this.syncSingleOperation(operation),
\* whose outcome nothing looks at.
RetryTimer(i, throws) ==
    /\ i \in sync.timers
    /\ sync' = [sync EXCEPT
           !.timers = @ \ {i},
           !.op[i] = IF throws THEN @ ELSE Applied(@)]
    /\ UNCHANGED <<relay, eh, rtc, core, react, pair>>

\* ------------------------------------------------------ WebRTCManager
\* this.connections.has(userId) that never finds one
HasNever(r, u) == FALSE

\* this.connections.has(userId)
Has(r, u) == r.connections[u] # 0

\* closeConnection(userId): closes and forgets what the map holds for the
\* user now
CloseFor(r, u) ==
    IF r.connections[u] = 0 THEN r
    ELSE [r EXCEPT !.pc[r.connections[u]].state = "closed", !.connections[u] = 0]

\* new RTCPeerConnection(...); this.connections.set(userId, peerConnection),
\* up to the first await of the try block
Create(r, u, role, awaits) ==
    LET p == r.created + 1
    IN [r EXCEPT !.created = p, !.connections[u] = p,
                 !.pc[p] = [userId |-> u, state |-> "open", role |-> role, left |-> awaits]]

\* A call of initiateConnection (role offer, two awaits) or of handleOffer
\* (role answer, three awaits) for user u, up to its return or first await.
Called(op, role, awaits, u) ==
    /\ rtc.created < NumPcs \/ rtc.connections[u] # 0
    /\ LET noted == [rtc EXCEPT !.last = [op |-> op, userId |-> u,
                                           existed |-> rtc.connections[u] # 0]]
       IN rtc' = IF Has(rtc, u) THEN noted ELSE Create(noted, u, role, awaits)
    /\ UNCHANGED <<relay, eh, sync, core, react, pair>>

\* initiateConnection(targetUserId)
InitiateConnection(u) == Called("initiateConnection", "webrtc-offer", 2, u)

\* handleOffer(fromUserId, offer)
HandleOffer(u) == Called("handleOffer", "webrtc-answer", 3, u)

\* An await of the call that created peer connection p settles. On a closed
\* peer connection it can only reject. After the last one the offer or
\* answer is sent; a rejection goes to the catch block, closeConnection.
Settles(p, ok) ==
    /\ rtc.pc[p].left > 0
    /\ ok => rtc.pc[p].state = "open"
    /\ rtc' = IF ok
              THEN [rtc EXCEPT !.pc[p].left = @ - 1,
                               !.sent = IF rtc.pc[p].left = 1
                                        THEN @ \cup {[type |-> rtc.pc[p].role,
                                                      toUserId |-> rtc.pc[p].userId]}
                                        ELSE @]
              ELSE CloseFor([rtc EXCEPT !.pc[p].left = 0], rtc.pc[p].userId)
    /\ UNCHANGED <<relay, eh, sync, core, react, pair>>

\* closeConnection(userId), on user-left or a failed connection state
CloseConnection(u) ==
    /\ Has(rtc, u)
    /\ rtc' = CloseFor(rtc, u)
    /\ UNCHANGED <<relay, eh, sync, core, react, pair>>

\* ------------------------------------------------------ WhiteboardCore
\* the end of a call, counted
Ended(c, op, result) ==
    [c EXCEPT !.last = [n |-> c.last.n + 1, op |-> op, result |-> result]]

\* a connect() whose steps all run and that sets the flag whatever they did
InitializedAlways(was, ok) == TRUE

\* isInitialized after the try block of connect(): set when no step threw
InitializedAfter(was, ok) == IF ok THEN TRUE ELSE was

\* connect(), up to await this.components.signaling.connect(). After
\* destroy() there is no signaling component and the call fails at once.
Connect ==
    /\ core.last.n < NumCalls
    /\ core.isInitialized \/ core.destroyed \/ core.connects < NumCalls
    /\ core' = IF core.isInitialized THEN Ended(core, "connect", "Already connected")
               ELSE IF core.destroyed THEN Ended(core, "connect", "failed")
               ELSE [core EXCEPT !.connects = @ + 1, !.connecting = @ + 1]
    /\ UNCHANGED <<relay, eh, sync, rtc, react, pair>>

\* signaling.connect() of a call of connect() settles: the socket opened or
\* failed; then joinRoom, collaboration.connect(), updateLocalPresence,
\* which all return or one of which throws.
ConnectSettles(opened, stepsOk) ==
    /\ core.connecting > 0
    /\ core.last.n < NumCalls
    /\ LET ok == opened /\ ~core.destroyed /\ stepsOk
           c == [core EXCEPT !.connecting = @ - 1,
                             !.connected = IF opened THEN TRUE ELSE @,
                             !.isInitialized = InitializedAfter(@, ok)]
       IN core' = Ended(c, "connect", IF ok THEN "ok" ELSE "failed")
    /\ UNCHANGED <<relay, eh, sync, rtc, react, pair>>

\* disconnect(): leaveRoom, collaboration.disconnect(), webrtc.destroy(),
\* signaling.disconnect(), which all return or one of which throws.
Disconnect(stepsOk) ==
    /\ core.last.n < NumCalls
    /\ core' = IF ~core.isInitialized THEN Ended(core, "disconnect", "nothing")
               ELSE IF stepsOk
               THEN Ended([core EXCEPT !.isInitialized = FALSE, !.connected = FALSE],
                          "disconnect", "ok")
               ELSE Ended(core, "disconnect", "failed")
    /\ UNCHANGED <<relay, eh, sync, rtc, react, pair>>

\* destroy(): every component's destroy(), then components = {} and the
\* flag; a destroy() that throws ends the call before both.
Destroy(stepsOk) ==
    /\ core.last.n < NumCalls
    /\ core' = IF stepsOk
               THEN Ended([core EXCEPT !.isInitialized = FALSE, !.destroyed = TRUE],
                          "destroy", "ok")
               ELSE Ended(core, "destroy", "failed")
    /\ UNCHANGED <<relay, eh, sync, rtc, react, pair>>

\* websocket.onclose
SignalingClosed ==
    /\ core.connected
    /\ core' = [core EXCEPT !.connected = FALSE]
    /\ UNCHANGED <<relay, eh, sync, rtc, react, pair>>

\* ------------------------------------------ SignalingService (React)
\* this.send(type, data): sent when this.ws is there and open
Sendable(x) == x.ws # 0 /\ x.socket[x.ws] = "open"

\* connect(url): this.ws = new WebSocket(url)
NewSocket(x) ==
    [x EXCEPT !.created = @ + 1, !.ws = x.created + 1,
              !.socket[x.created + 1] = "connecting"]

\* attemptReconnect(url)
AttemptReconnect(x) ==
    IF x.reconnectAttempts < MaxReconnectAttempts
    THEN [x EXCEPT !.reconnectAttempts = @ + 1, !.timers = @ + 1]
    ELSE x

\* onopen of socket k: the counter is reset and joinRoom() sends join-room
SocketOpens(k) ==
    /\ react.socket[k] = "connecting"
    /\ LET x == [react EXCEPT !.socket[k] = "open", !.reconnectAttempts = 0]
       IN react' = IF Sendable(x) THEN [x EXCEPT !.joins = @ + 1] ELSE x
    /\ UNCHANGED <<relay, eh, sync, rtc, core, pair>>

\* onclose of socket k, which failed to open, was dropped by the network
\* or was closed by disconnect()
SocketCloses(k) ==
    /\ react.socket[k] \in {"connecting", "open", "closing"}
    /\ react' = AttemptReconnect([react EXCEPT !.socket[k] = "closed"])
    /\ UNCHANGED <<relay, eh, sync, rtc, core, pair>>

\* the timer of attemptReconnect fires: this.connect(url)
ReconnectTimer ==
    /\ react.timers > 0
    /\ react.created < NumSockets
    /\ react' = NewSocket([react EXCEPT !.timers = @ - 1])
    /\ UNCHANGED <<relay, eh, sync, rtc, core, pair>>

\* disconnect()
ReactDisconnect ==
    /\ react' = IF react.ws # 0
                THEN [react EXCEPT !.socket[react.ws] = "closing", !.ws = 0,
                                   !.disconnected = TRUE]
                ELSE [react EXCEPT !.disconnected = TRUE]
    /\ UNCHANGED <<relay, eh, sync, rtc, core, pair>>

\* ------------------------------------------------------- a pair of peers
Other(a) == CHOOSE b \in Users : b # a

\* this.connections.has(userId), in the manager of peer a
PeerHas(a) == pair.peer[a].role # "none"

\* initiateConnection(other) in the manager of peer a, up to its first await
PeerInitiates(a) ==
    /\ pair' = IF PeerHas(a) THEN pair
               ELSE [pair EXCEPT !.peer[a] = [NoPeer EXCEPT !.role = "offer", !.left = 2]]
    /\ UNCHANGED <<relay, eh, sync, rtc, core, react>>

\* An await of the call that made peer a's connection resolves: createOffer
\* and setLocalDescription for an offer; setRemoteDescription, createAnswer
\* and setLocalDescription for an answer. After the last the offer or the
\* answer is sent.
PeerAwait(a) ==
    /\ pair.peer[a].left > 0
    /\ LET q == pair.peer[a]
           last == q.left = 1
       IN pair' = [pair EXCEPT
              !.peer[a].left = @ - 1,
              !.peer[a].remote = IF q.role = "answer" /\ q.left = 3 THEN TRUE ELSE @,
              !.peer[a].local = IF last THEN TRUE ELSE @,
              !.net = IF last THEN @ \cup {[type |-> q.role, from |-> a, n |-> 0]} ELSE @]
    /\ UNCHANGED <<relay, eh, sync, rtc, core, react>>

\* onicecandidate of peer a's connection, once its local description is set
EmitCandidate(a) ==
    /\ pair.peer[a].local
    /\ pair.peer[a].cands < NumCandidates
    /\ pair' = [pair EXCEPT
           !.peer[a].cands = @ + 1,
           !.net = @ \cup {[type |-> "candidate", from |-> a, n |-> pair.peer[a].cands + 1]}]
    /\ UNCHANGED <<relay, eh, sync, rtc, core, react>>

\* handleOffer(from, offer) in the manager of peer a, up to its first await
OfferArrives(a) ==
    IF PeerHas(a) THEN pair.peer[a]
    ELSE [NoPeer EXCEPT !.role = "answer", !.left = 3]

\* handleAnswer(from, answer): setRemoteDescription(answer), which a
\* connection takes only after its own offer; the catch closes the connection
AnswerArrives(a) ==
    LET q == pair.peer[a]
    IN IF ~PeerHas(a) THEN q
       ELSE IF q.role = "offer" /\ q.local /\ ~q.remote THEN [q EXCEPT !.remote = TRUE]
       ELSE NoPeer

\* handleIceCandidate(from, candidate): addIceCandidate, which throws
\* without a remote description; the catch logs
CandidateArrives(a) ==
    LET q == pair.peer[a]
    IN IF PeerHas(a) /\ q.remote THEN [q EXCEPT !.added = @ + 1] ELSE q

\* The signaling service hands message m to the handler of its type.
Deliver(m) ==
    /\ m \in pair.net
    /\ LET a == Other(m.from)
       IN pair' = [pair EXCEPT
              !.net = @ \ {m},
              !.peer[a] = CASE m.type = "offer" -> OfferArrives(a)
                            [] m.type = "answer" -> AnswerArrives(a)
                            [] OTHER -> CandidateArrives(a)]
    /\ UNCHANGED <<relay, eh, sync, rtc, core, react>>

\* ------------------------------------------------------- time to live
\* The table's timeToLiveAttribute: the record's ttl has passed. DynamoDB
\* deletes such a record at some later time and returns it to every query
\* and scan until then.
Expired(x) == x.ttl < now

Live(S) == {x \in S : ~Expired(x)}

\* Time passes: more than the 24 hours a record lives.
Tick ==
    /\ now < MaxTicks * (TtlSeconds + 1)
    /\ now' = now + TtlSeconds + 1
    /\ UNCHANGED <<store, alive, msg, disc>>

\* The table's background sweep deletes the expired records of a room.
Purge(r) ==
    /\ \E x \in RoomUsers(r) : Expired(x)
    /\ store' = store \ {x \in RoomUsers(r) : Expired(x)}
    /\ UNCHANGED <<now, alive, msg, disc>>

\* ------------------------------------------------------------ observers
\* What the clients and the log have seen so far.  An observer is conjoined
\* to the steps of the specification that needs it and frozen in the others.

\* a user-list for room r leaves the relay in this step
Posts(c, r) ==
    /\ msg[c].pc = "bc_send" /\ msg'[c].pc # "bc_send"
    /\ msg[c].roomId = r /\ msg'[c].posted # {}

ObserveLists ==
    lastList' = [r \in Rooms |->
                   IF \E c \in Actives : Posts(c, r)
                   THEN [sent |-> TRUE,
                         users |-> msg[CHOOSE c \in Actives : Posts(c, r)].roster]
                   ELSE lastList[r]]

ObserveLeaves ==
    lastLeft' = [c \in Actives |->
                   IF msg[c].pc = "done" /\ msg'[c].pc = "idle"
                   THEN IF msg[c].type = "leave-room" /\ msg[c].status = 200
                        THEN msg[c].roomId ELSE Null
                   ELSE lastLeft[c]]

ObservePeak ==
    peak' = [r \in Rooms |->
               Max(peak[r],
                   Cardinality({c \in Actives :
                                  msg'[c].pc = "jr_put" /\ msg'[c].roomId = r}))]

\* ----------------------------------------------------------------- specs
\* The steps of the invocations in flight.
JoinLeaveStep ==
    \/ \E c \in Actives : JoinCheck(c)
    \/ \E c \in Actives : JoinPut(c)
    \/ \E c \in Actives : LeaveDelete(c)
    \/ \E c \in Actives : RosterRead(c)
    \/ \E c \in Actives : BroadcastRead(c)
    \/ \E c \in Actives : BroadcastSend(c)
    \/ \E c \in Actives : Return(c)

Step ==
    \/ JoinLeaveStep
    \/ \E c \in Actives : \E d \in Conns : BroadcastPrune(c, d)
    \/ \E c \in Actives : \E r \in Rooms : DisconnectDelete(c, r)
    \/ \E c \in Actives : DisconnectReturn(c)

\* A call to the store fails under an invocation.
Faults ==
    \/ \E c \in Actives : StoreError(c)
    \/ \E c \in Actives : DisconnectError(c)

\* A join-room or leave-room message arrives, with its fields from rs and us.
Message(rs, us) ==
    \/ \E c \in Actives : \E r \in rs : \E u \in us : JoinRoom(c, r, u)
    \/ \E c \in Actives : \E r \in rs : LeaveRoom(c, r)

\* Invocations of different connections interleave at every await; the
\* connections join and leave the free room, and those of Closing close and
\* are disconnected at any point of it.
Next ==
    /\ \/ Step
       \/ Faults
       \/ Message({FreeRoom}, Users)
       \/ \E c \in Actives : DisconnectQuery(c)
       \/ \E c \in Closing : Close(c)
    /\ UNCHANGED <<lastList, lastLeft, peak, client>>

Spec == Init /\ [][Next]_vars

\* Joins and leaves of the full room race; no connection closes.  A member
\* of the full room is refused when it joins again, so no record is ever
\* rewritten here and one userId is as good as any.
NextRace ==
    /\ \/ JoinLeaveStep
       \/ \E c \in Actives : StoreError(c)
       \/ Message({FullRoom}, {"alice"})
    /\ ObservePeak
    /\ UNCHANGED <<lastList, lastLeft, client>>

SpecRace == Init /\ [][NextRace]_vars

\* Requests are processed one at a time: a request is taken up only when
\* no invocation is in flight.  Any room, any user, fields missing or not.
OneAtATime ==
    \/ Step
    \/ Quiet /\ Message(Rooms \cup {Null}, Users \cup {Null})
    \/ Quiet /\ \E c \in Actives : DisconnectQuery(c)
    \/ \E c \in Actives : Close(c)

\* The store may fail any call.
NextSeq == (OneAtATime \/ Faults) /\ UNCHANGED <<lastList, lastLeft, peak, client>>

SpecSeq == Init /\ [][NextSeq]_vars

\* One at a time over a store that answers every call, with the user-lists
\* the clients were sent recorded.
NextLists == OneAtATime /\ ObserveLists /\ UNCHANGED <<lastLeft, peak, client>>

SpecLists == Init /\ [][NextLists]_vars

\* One at a time over a store that answers every call, with each
\* connection's latest leave-room recorded.
NextLeaves == OneAtATime /\ ObserveLeaves /\ UNCHANGED <<lastList, peak, client>>

SpecLeaves == Init /\ [][NextLeaves]_vars

\* A signal message arrives: its target, the userId it claims, its signal.
SignalTargets == Users \cup {ResidentUser, Null}

SignalMessage ==
    \E c \in Actives : \E t \in SignalTargets : \E u \in Users \cup {Null} :
       \E p \in JsonTexts \cup {Null} : Signal(c, t, u, p)

SignalStep ==
    \/ \E c \in Actives : SignalScan(c)
    \/ \E c \in Actives : SignalPost(c)

\* A message the handler turns away before any handler of a type sees it.
Rejects ==
    \/ \E c \in Actives : NoBody(c)
    \/ \E c \in Actives : Unparseable(c)
    \/ \E c \in Actives : UnknownType(c)

\* One at a time, all the messages of the signal route: join-room and
\* leave-room of the free room, signals to any userId, fields missing or
\* not, and the messages that are turned away.
SignalRoute ==
    \/ Step
    \/ SignalStep
    \/ Quiet /\ Message({FreeRoom, Null}, Users \cup {Null})
    \/ Quiet /\ SignalMessage
    \/ Quiet /\ Rejects
    \/ Quiet /\ \E c \in Actives : DisconnectQuery(c)
    \/ \E c \in Actives : Close(c)

\* The store may fail any call.
NextSignal == (SignalRoute \/ Faults) /\ UNCHANGED <<lastList, lastLeft, peak, client>>

SpecSignal == Init /\ [][NextSignal]_vars

\* Over a store that answers every call, with the user-lists the clients
\* were sent recorded.
NextSignalLists == SignalRoute /\ ObserveLists /\ UNCHANGED <<lastLeft, peak, client>>

SpecSignalLists == Init /\ [][NextSignalLists]_vars

\* Join-room, leave-room and signal requests of different connections
\* interleave at every await over a store that may fail any call; no
\* connection closes.
NextFaults ==
    /\ \/ JoinLeaveStep
       \/ SignalStep
       \/ \E c \in Actives : StoreError(c)
       \/ Message({FreeRoom}, {"alice"})
       \/ \E c \in Actives : \E t \in {"alice", ResidentUser} :
             Signal(c, t, "alice", "{\"type\":\"offer\"}")
    /\ UNCHANGED <<lastList, lastLeft, peak, client>>

SpecFaults == Init /\ [][NextFaults]_vars

\* Invocations of different connections interleave at every await over a
\* store that answers every call; the connections join and leave the free
\* room, and those of Closing close and are disconnected at any point.
NextReliable ==
    /\ \/ Step
       \/ Message({FreeRoom}, Users)
       \/ \E c \in Actives : DisconnectQuery(c)
       \/ \E c \in Closing : Close(c)
    /\ UNCHANGED <<lastList, lastLeft, peak, client>>

SpecReliable == Init /\ [][NextReliable]_vars

\* The same, but no connection closes while a join-room of its own is in
\* flight: what is in flight at its close is a leave-room, or nothing.
NextLeaveClose ==
    /\ \/ Step
       \/ Message({FreeRoom}, Users)
       \/ \E c \in Actives : DisconnectQuery(c)
       \/ \E c \in Closing : msg[c].type # "join-room" /\ Close(c)
    /\ UNCHANGED <<lastList, lastLeft, peak, client>>

SpecLeaveClose == Init /\ [][NextLeaveClose]_vars

\* One at a time over a store that answers every call; in a broadcast the
\* post to one of the open recipients may fail.
NextPosts ==
    /\ \/ OneAtATime
       \/ \E c \in Actives : \E d \in Conns : BroadcastSendWith(c, {d})
    /\ UNCHANGED <<lastList, lastLeft, peak, client>>

SpecPosts == Init /\ [][NextPosts]_vars

\* The signal route, with the messages of the clients' WebRTCManager.
NextWebRTC ==
    /\ \/ SignalRoute
       \/ Quiet /\ \E c \in Actives : \E k \in WebRTCKinds : \E u \in Users :
                      WebRTCSend(c, k, u)
    /\ UNCHANGED <<lastList, lastLeft, peak, client>>

SpecWebRTC == Init /\ [][NextWebRTC]_vars

\* One at a time over a store that answers every call, while time passes
\* and the table sweeps expired records when it pleases: joins and leaves of
\* both rooms, signals to a newcomer and to a resident.
NextExpiry ==
    /\ \/ JoinLeaveStep
       \/ SignalStep
       \/ Quiet /\ Message(Rooms, {"alice"})
       \/ Quiet /\ \E c \in Actives : \E t \in {"alice", ResidentUser} :
                      Signal(c, t, "alice", "{\"type\":\"offer\"}")
       \/ Tick
       \/ \E r \in Rooms : Purge(r)
    /\ UNCHANGED <<lastList, lastLeft, peak, client>>

SpecExpiry == Init /\ [][NextExpiry]_vars

\* The ErrorHandler of a client: the calls of initiateReconnection, made by
\* the error handlers or by forceReconnect, and stopReconnection.
NextReconnect ==
    \/ \E r \in Runs : InitiateReconnection(r)
    \/ \E r \in Runs : \E healthy \in BOOLEAN : AttemptSettles(r, healthy)
    \/ \E r \in Runs : SleepOver(r)
    \/ StopReconnection
    \/ \E r \in Runs : ForceReconnect(r)

SpecReconnect == Init /\ [][NextReconnect]_vars

\* The OfflineSyncManager of a client: operations are queued, the network
\* comes and goes, syncs are asked for, timers fire.
NextSync ==
    \/ \E type \in OpKinds : QueueOfflineOperation(type)
    \/ Online
    \/ Offline
    \/ ForceSyncNow
    \/ RetryFailedOperations
    \/ \E synced \in BOOLEAN : HandleSyncStatus(synced)
    \/ SyncTimer
    \/ \E i \in OpIds : \E throws \in BOOLEAN : RetryTimer(i, throws)

SpecSync == Init /\ [][NextSync]_vars

\* The WebRTCManager of a client: users join and leave, offers arrive,
\* the calls of the peer connections settle.
NextPeers ==
    \/ \E u \in Users : InitiateConnection(u)
    \/ \E u \in Users : HandleOffer(u)
    \/ \E p \in Pcs : \E ok \in BOOLEAN : Settles(p, ok)
    \/ \E u \in Users : CloseConnection(u)

SpecPeers == Init /\ [][NextPeers]_vars

\* The WhiteboardCore of a client under calls of its public methods.
NextCore ==
    \/ Connect
    \/ \E opened, stepsOk \in BOOLEAN : ConnectSettles(opened, stepsOk)
    \/ \E stepsOk \in BOOLEAN : Disconnect(stepsOk)
    \/ \E stepsOk \in BOOLEAN : Destroy(stepsOk)
    \/ SignalingClosed

SpecCore == Init /\ [][NextCore]_vars

\* The SignalingService of a React client: its sockets open and close, its
\* timers fire, and the user disconnects.
NextReact ==
    \/ \E k \in Sockets : SocketOpens(k)
    \/ \E k \in Sockets : SocketCloses(k)
    \/ ReconnectTimer
    \/ ReactDisconnect

SpecReact == Init /\ [][NextReact]_vars

\* Two peers that learn of each other, over a signaling service that
\* delivers every message and connections whose calls all succeed.
NextPair ==
    \/ \E a \in Users : PeerInitiates(a)
    \/ \E a \in Users : PeerAwait(a)
    \/ \E a \in Users : EmitCandidate(a)
    \/ \E m \in pair.net : Deliver(m)

SpecPair == Init /\ [][NextPair]_vars

\* Every call in flight settles and every message sent is delivered.
SpecPairFair == SpecPair /\ WF_vars(NextPair)

\* ---------------------------------------------------------------- claims
JoinOf(c) == msg[c].type = "join-room"
LeaveOf(c) == msg[c].type = "leave-room"
RoomSize(r) == Cardinality(RoomUsers(r))

\* C1: the store never holds two records with the same (roomId,
\* connectionId), whatever the interleaving of join-room, leave-room and
\* disconnect; and right after the put of a join-room, the record of the
\* joining connection (its transport still open) is the one just written.
C1_OneRecordPerKey ==
    /\ \A x \in store : \A y \in store :
          (x.roomId = y.roomId /\ x.connectionId = y.connectionId) => x = y
    /\ \A c \in Actives :
          (msg[c].pc = "roster" /\ JoinOf(c) /\ alive[c])
             => {x \in RoomUsers(msg[c].roomId) : x.connectionId = c}
                   = {RoomConnection(msg[c].roomId, c, msg[c].userId)}

\* a join-room has just replaced the record the connection already held,
\* under another userId, while another request is in flight
C1_Witness ==
    \E c \in Actives : \E d \in Actives \ {c} :
       /\ msg[c].pc = "roster" /\ JoinOf(c) /\ msg[c].held
       /\ InFlight(d)
       /\ Holds(d, msg[c].roomId)

\* C2: with requests processed one at a time no room ever holds more than
\* 8 records.
C2_SequentialLimit == \A r \in Rooms : RoomSize(r) <= MaxRoomSize

\* a room is full and a join-room to it has been refused
C2_Witness ==
    \E c \in Actives :
       /\ msg[c].pc = "done" /\ JoinOf(c) /\ msg[c].error = "Room is full"
       /\ RoomSize(msg[c].roomId) = MaxRoomSize

\* C3: a room holds at most 7 + N records, N the most join-room requests
\* that were at once between their capacity guard and their put (one at
\* least): N racing joins exceed the limit of 8 by at most N - 1.
C3_RaceBound ==
    \A r \in Rooms : RoomSize(r) <= MaxRoomSize - 1 + Max(1, peak[r])

\* two joins raced on the room of 7 and both inserted
C3_Witness ==
    /\ peak[FullRoom] = 2
    /\ RoomSize(FullRoom) = MaxRoomSize + 1

\* C4: the guard of a join-room that reads 8 or more records ends the
\* request with status 400 "Room is full": that step writes no record and
\* touches no other invocation, and the refused request has posted no
\* message to any connection.
C4_RefusedStep(c) ==
    (/\ msg[c].pc = "jr_check"
     /\ msg'[c].pc # "jr_check"
     /\ RoomSize(msg[c].roomId) >= MaxRoomSize
     /\ msg'[c].status # 500)
    => /\ msg'[c].pc = "done"
       /\ msg'[c].status = 400
       /\ msg'[c].error = "Room is full"
       /\ store' = store
       /\ \A d \in Actives \ {c} : msg'[d] = msg[d]

C4_RefusedQuiet(c) ==
    (msg[c].pc = "done" /\ JoinOf(c) /\ msg[c].seenN >= MaxRoomSize)
    => /\ msg[c].status = 400 /\ msg[c].error = "Room is full"
       /\ msg[c].posted = {} /\ msg[c].roster = {} /\ msg[c].toPrune = {}
       /\ ~msg[c].held

C4_FullRoomRefused ==
    /\ [](\A c \in Actives : C4_RefusedQuiet(c))
    /\ [][\A c \in Actives : C4_RefusedStep(c)]_vars

\* a join-room was refused by a room holding more than 8 records
C4_Witness ==
    \E c \in Actives :
       /\ msg[c].pc = "done" /\ JoinOf(c) /\ msg[c].error = "Room is full"
       /\ msg[c].seenN = MaxRoomSize + 1
       /\ RoomSize(msg[c].roomId) = MaxRoomSize + 1

\* C5: with requests processed one at a time, the roster a join-room
\* computes is the room's records after its insert, the joiner's among
\* them, and the user-list carrying it is posted to exactly the connections
\* of that roster, the joiner included.
C5_JoinBroadcast ==
    \A c \in Actives :
       /\ (JoinOf(c) /\ msg[c].pc \in {"bc_read", "bc_send"})
             => /\ msg[c].roster = UserList(RoomUsers(msg[c].roomId))
                /\ [userId |-> msg[c].userId, connectionId |-> c] \in msg[c].roster
       /\ (JoinOf(c) /\ msg[c].pc = "bc_send")
             => msg[c].recips = {x.connectionId : x \in msg[c].roster}
       /\ (JoinOf(c) /\ (msg[c].pc = "bc_prune"
                          \/ (msg[c].pc = "done" /\ msg[c].status = 200)))
             => /\ msg[c].posted = {x.connectionId : x \in msg[c].roster}
                /\ c \in msg[c].posted
                /\ [userId |-> msg[c].userId, connectionId |-> c] \in msg[c].roster

\* a join-room of the room of 7 succeeded and posted to all 8 members
C5_Witness ==
    \E c \in Actives :
       /\ msg[c].pc = "done" /\ JoinOf(c) /\ msg[c].status = 200
       /\ msg[c].posted = Residents \cup {c}

\* C6: when nothing is in flight and no closed connection waits for its
\* disconnect, the records of a room that still has members are the users
\* of the last user-list sent for it.
C6_RosterIsLastList ==
    (/\ Quiet
     /\ \A c \in Actives : disc[c].pc \in {"none", "closed"})
    => \A r \in Rooms :
          (lastList[r].sent /\ RoomUsers(r) # {})
             => lastList[r].users = UserList(RoomUsers(r))

\* C7: when the disconnect handling of c has completed without a store
\* error, no record with connectionId c is left in any room.
C7_DisconnectCleans ==
    \A c \in Actives :
       (disc[c].pc = "done" /\ ~disc[c].err) => ConnectionItems(c) = {}

\* the disconnect of a connection that was in both rooms has completed
C7_Witness ==
    \E c \in Actives :
       /\ disc[c].pc = "done" /\ ~disc[c].err
       /\ disc[c].found = Rooms

\* C8: when the disconnect handling of c has completed, every room it found
\* c in and that still has members has been sent a user-list without c.
C8_DisconnectNotifies ==
    \A c \in Actives : \A r \in Rooms :
       (/\ disc[c].pc = "done" /\ ~disc[c].err
        /\ r \in disc[c].found
        /\ RoomUsers(r) # {})
       => /\ lastList[r].sent
          /\ c \notin {x.connectionId : x \in lastList[r].users}

\* C9: the user-list of a leave-room of c is never addressed to c, never
\* posted to c and never lists c, whatever joins and leaves of the other
\* connections interleave with it.
C9_LeaveExcludesSelf ==
    \A c \in Actives :
       LeaveOf(c) =>
          /\ c \notin msg[c].recips
          /\ c \notin msg[c].posted
          /\ c \notin {x.connectionId : x \in msg[c].roster}

\* a member left while another request was in flight, and the rest of the
\* room was posted the user-list
C9_Witness ==
    \E c \in Actives : \E d \in Actives \ {c} :
       /\ msg[c].pc = "done" /\ LeaveOf(c) /\ msg[c].status = 200
       /\ msg[c].held
       /\ Residents \subseteq msg[c].posted
       /\ InFlight(d)

\* C10: a leave-room that succeeds right after the same connection's
\* leave-room of the same room posts no user-list.
C10_SecondLeaveSilent ==
    \A c \in Actives :
       (/\ msg[c].pc = "done" /\ LeaveOf(c) /\ msg[c].status = 200
        /\ lastLeft[c] = msg[c].roomId)
       => msg[c].posted = {}

\* ------------------------------------------------------- claims: signal
SignalOf(c) == msg[c].type = "signal"

\* the signal request of c has ended with its signal posted to the target
Forwarded(c) == msg[c].pc = "done" /\ SignalOf(c) /\ msg[c].status = 200

\* the signal request of c has ended with the post to its target thrown
ForwardFailed(c) ==
    msg[c].pc = "done" /\ SignalOf(c) /\ msg[c].to # 0 /\ msg[c].data = NoData

\* C11: when the post that forwards a signal fails because the target's
\* connection is gone, the target's record is no longer in the store and
\* the request is answered with the target-not-found error (404).
C11_StaleForwardHeals ==
    \A c \in Actives :
       (ForwardFailed(c) /\ ~alive[msg[c].to])
          => /\ ~\E x \in store : x.connectionId = msg[c].to
                                   /\ x.userId = msg[c].targetUserId
             /\ msg[c].status = 404

\* the signal request of c names a userId that some record carries, and
\* every connection with such a record is open
TargetReachable(c) ==
    /\ msg[c].pc = "done" /\ SignalOf(c)
    /\ msg[c].targetUserId # Null /\ msg[c].signalText # Null
    /\ \E x \in store : x.userId = msg[c].targetUserId
    /\ \A x \in store : x.userId = msg[c].targetUserId => alive[x.connectionId]

\* the target of c's request has been posted a signal message whose signal
\* reads as the value the signal c sent reads as
DeliveredUnaltered(c) ==
    /\ Forwarded(c)
    /\ \E x \in store : x.connectionId = msg[c].to /\ x.userId = msg[c].targetUserId
    /\ msg[c].data.to = msg[c].to /\ msg[c].data.type = "signal"
    /\ JsonParse(msg[c].data.signal) = JsonParse(msg[c].signalText)

\* a value JSON.stringify prints back as it was read, and that is not falsy
PayloadKept(p) ==
    LET v == JsonParse(p) IN Truthy(v) /\ JsonParse(v.repr) = v

C13_FromIsJoinedUser ==
    \A c \in Actives :
       Forwarded(c) => \A x \in ConnectionItems(c) : msg[c].data.fromUserId = x.userId

\* C14: a signal whose targetUserId no record carries ends with 404 "Target
\* user not found": that step changes no record and no other invocation,
\* and the request has posted nothing to any connection.
C14_NotFoundStep(c) ==
    (/\ msg[c].pc = "sg_scan" /\ msg'[c] # msg[c]
     /\ ~\E x \in store : x.userId = msg[c].targetUserId)
       => /\ msg'[c].pc = "done" /\ msg'[c].status = 404
          /\ msg'[c].error = "Target user not found"
          /\ store' = store
          /\ \A d \in Actives \ {c} : msg'[d] = msg[d]

C14_NotFoundQuiet(c) ==
    (msg[c].pc = "done" /\ SignalOf(c) /\ msg[c].status = 404)
       => msg[c].data = NoData /\ msg[c].posted = {} /\ msg[c].to = 0

C14_TargetNotFound ==
    /\ [](\A c \in Actives : C14_NotFoundQuiet(c))
    /\ [][\A c \in Actives : C14_NotFoundStep(c)]_vars

\* a member of a room has been answered that its target was not found
C14_Witness ==
    \E c \in Actives :
       /\ msg[c].pc = "done" /\ SignalOf(c) /\ msg[c].status = 404
       /\ ConnectionItems(c) # {}
       /\ ~\E x \in store : x.userId = msg[c].targetUserId

\* C15: a signal is forwarded only to a connection that holds a record in
\* a room the sender holds a record in.
C15_SameRoomOnly ==
    \A c \in Actives :
       (Forwarded(c) /\ ConnectionItems(c) # {})
          => \E r \in Rooms : Holds(c, r) /\ Holds(msg[c].to, r)

\* C18: when the post that forwards a signal fails, the request of the
\* sender is not answered as failed.
C18_ForwardFailureSilent ==
    \A c \in Actives : ForwardFailed(c) => msg[c].status < 400

\* the request of c has ended after it tried to deliver to the closed
\* connection d as a member of room r: a broadcast that posted to d and
\* pruned its record, or a signal whose post to d was thrown
TouchedDead(c, d, r) ==
    /\ msg[c].pc = "done" /\ ~alive[d] /\ disc[d].pc = "pending"
    /\ \/ /\ msg[c].type \in {"join-room", "leave-room"} /\ msg[c].roomId = r
          /\ d \in msg[c].posted /\ ~Holds(d, r)
       \/ ForwardFailed(c) /\ msg[c].to = d /\ Holds(d, r)

\* C16: once a forward or a broadcast has tried to deliver to a member
\* whose connection died (no leave-room, $disconnect not processed), the
\* last user-list the remaining members were sent no longer contains it.
C16_DeadMemberDropped ==
    \A c \in Actives : \A d \in Actives \ {c} : \A r \in Rooms :
       (TouchedDead(c, d, r) /\ alive[c] /\ Holds(c, r))
          => /\ lastList[r].sent
             /\ d \notin ConnsOf(lastList[r].users)

\* C17: a broadcast posts to every recipient, the closed ones included; a
\* failed post costs only the record of the recipient it failed for, and
\* the join-room or leave-room that broadcast is answered 200 all the same.
C17_SendStep(c) ==
    (msg[c].pc = "bc_send" /\ msg'[c] # msg[c])
       => /\ msg'[c].posted = msg[c].recips
          /\ msg'[c].toPrune = {d \in msg[c].recips : ~alive[d]}
          /\ store' = store
          /\ msg'[c].pc \in {"bc_prune", "done"}
          /\ msg'[c].pc = "done" => msg'[c].status = 200

C17_PruneStep(c) ==
    (msg[c].pc = "bc_prune" /\ msg'[c] # msg[c])
       => /\ \E d \in msg[c].toPrune :
                /\ ~alive[d]
                /\ store' = {x \in store : ~(x.roomId = msg[c].roomId /\ x.connectionId = d)}
          /\ msg'[c].posted = msg[c].posted
          /\ msg'[c].pc \in {"bc_prune", "done"}
          /\ msg'[c].pc = "done" => msg'[c].status = 200

C17_PartialFailure ==
    [][\A c \in Actives : C17_SendStep(c) /\ C17_PruneStep(c)]_vars

\* a broadcast has reached the open members and pruned a closed one, and
\* its request is answered 200
C17_Witness ==
    \E c \in Actives : \E d \in Actives : \E a \in Conns \ {c, d} :
       /\ msg[c].pc = "done" /\ msg[c].status = 200
       /\ msg[c].type \in {"join-room", "leave-room"}
       /\ {a, d} \subseteq msg[c].posted
       /\ alive[a] /\ Holds(a, msg[c].roomId)
       /\ ~alive[d] /\ ~Holds(d, msg[c].roomId)

\* the message of invocation m has no body or no JSON body (type none), an
\* unknown type, or lacks a field its type requires
Malformed(m) ==
    \/ m.type \in {"none", "unknown"}
    \/ m.type = "join-room" /\ (m.roomId = Null \/ m.userId = Null)
    \/ m.type = "leave-room" /\ m.roomId = Null
    \/ m.type = "signal" /\ (m.targetUserId = Null \/ m.signalText = Null)

\* C19: a malformed message is answered with an error at once; no record
\* changes, nothing is posted, no other invocation is touched, and when
\* the answer is returned the connection is open and idle as before, so
\* that its next request is taken up.
C19_RejectStep(c) ==
    (msg[c].pc = "idle" /\ msg'[c].pc # "idle" /\ Malformed(msg'[c]))
       => /\ msg'[c].pc = "done" /\ msg'[c].status >= 400 /\ msg'[c].error # ""
          /\ msg'[c].posted = {} /\ msg'[c].data = NoData
          /\ store' = store /\ alive' = alive /\ disc' = disc
          /\ \A d \in Actives \ {c} : msg'[d] = msg[d]

C19_ReturnStep(c) ==
    (msg[c].pc = "done" /\ Malformed(msg[c]) /\ msg'[c] # msg[c])
       => /\ msg'[c] = IdleMsg
          /\ store' = store /\ alive' = alive /\ disc' = disc

C19_MalformedRejected ==
    [][\A c \in Actives : C19_RejectStep(c) /\ C19_ReturnStep(c)]_vars

\* a member of a room has had a signal without its signal field rejected
\* while the other connection is a member too
C19_Witness ==
    \E c \in Actives : \E d \in Actives \ {c} :
       /\ msg[c].pc = "done" /\ SignalOf(c) /\ msg[c].signalText = Null
       /\ msg[c].targetUserId # Null /\ msg[c].status = 400
       /\ ConnectionItems(c) # {} /\ ConnectionItems(d) # {}

\* C20: a store call that fails under a join-room, leave-room or signal
\* request ends that request with status 500 "Internal server error"; the
\* step changes no record and no other invocation, and no request is
\* answered 200 with an error.
C20_FailStep(c) ==
    (/\ msg[c].pc \in StoreCalls
     /\ msg'[c].pc = "done" /\ msg'[c].error = "Internal server error")
       => /\ msg'[c].status = 500
          /\ store' = store /\ alive' = alive /\ disc' = disc
          /\ \A d \in Actives \ {c} : msg'[d] = msg[d]

C20_StoreFailure ==
    /\ [](\A c \in Actives :
            (msg[c].pc = "done" /\ msg[c].status = 200) => msg[c].error = "")
    /\ [][\A c \in Actives : C20_FailStep(c)]_vars

\* the scan of a signal has failed while the request of another connection
\* is in flight, its record written
C20_Witness ==
    \E c \in Actives : \E d \in Actives \ {c} :
       /\ msg[c].pc = "done" /\ SignalOf(c) /\ msg[c].status = 500
       /\ msg[d].pc \in {"roster", "bc_read", "bc_send"} /\ Holds(d, msg[d].roomId)

\* -------------------------------------------------- claims: concurrency
\* C21: however the $disconnect of a connection interleaves with a
\* leave-room of the same connection that was in flight at its close, both
\* are answered 200 and, once both are over, the store holds no record of
\* the connection.
C21_DisconnectWithLeave ==
    \A c \in Actives :
       /\ (msg[c].pc = "done" /\ LeaveOf(c)) => msg[c].status = 200
       /\ disc[c].pc = "done" => (disc[c].status = 200 /\ ~disc[c].err)
       /\ (disc[c].pc \in {"done", "closed"} /\ msg[c].pc \in {"done", "idle"})
             => ConnectionItems(c) = {}

\* the query of the $disconnect saw the record, the leave-room in flight
\* deleted it, and the $disconnect deleted it once more
C21_Witness ==
    \E c \in Actives :
       /\ disc[c].pc = "done" /\ disc[c].found # {}
       /\ msg[c].pc = "done" /\ LeaveOf(c) /\ msg[c].held

\* C30: once the $disconnect of a connection has returned, the store
\* holds no record of that connection, ever.
C30_ClosedIsTerminal ==
    \A c \in Actives : disc[c].pc = "closed" => ConnectionItems(c) = {}

\* the join-room of c has passed its capacity guard
PastGuard(c) ==
    /\ JoinOf(c)
    /\ \/ msg[c].pc \in {"jr_put", "roster", "bc_read", "bc_send", "bc_prune"}
       \/ msg[c].pc = "done" /\ msg[c].status = 200

\* C22: the guard and the put of join-room are two steps: every join-room
\* that passes the guard has read fewer than 8 records, and a room gets
\* above 8 only when two join-room requests were between guard and put at
\* once; two such requests on a room of 7 take it to 9.
C22_GuardNotAtomic ==
    /\ \A c \in Actives : PastGuard(c) => msg[c].seenN < MaxRoomSize
    /\ \A r \in Rooms : RoomSize(r) > MaxRoomSize => peak[r] >= 2

\* two connections have both read 7 records, both inserted, and the room
\* holds 9
C22_Witness ==
    \E c \in Actives : \E d \in Actives \ {c} :
       /\ PastGuard(c) /\ PastGuard(d)
       /\ msg[c].roomId = FullRoom /\ msg[d].roomId = FullRoom
       /\ msg[c].seenN = MaxRoomSize - 1 /\ msg[d].seenN = MaxRoomSize - 1
       /\ msg[c].pc # "jr_put" /\ msg[d].pc # "jr_put"
       /\ RoomSize(FullRoom) = MaxRoomSize + 1

\* C29: a broadcast deletes the record of a recipient exactly when the
\* post to it failed with 410 (its connection is closed): it ends only
\* when all of these are deleted, and it deletes no record of a recipient
\* that was reached or whose post failed in another way.
C29_SendStep(c) ==
    (msg[c].pc = "bc_send" /\ msg'[c] # msg[c])
       => /\ msg'[c].toPrune = {d \in msg[c].recips : ~alive[d]}
          /\ msg'[c].failed \subseteq {d \in msg[c].recips : alive[d]}
          /\ store' = store
          /\ msg'[c].pc = "done" <=> msg'[c].toPrune = {}

C29_PruneStep(c) ==
    (msg[c].pc = "bc_prune" /\ msg'[c] # msg[c])
       => /\ \E d \in msg[c].toPrune :
                /\ store' = {x \in store : ~(x.roomId = msg[c].roomId /\ x.connectionId = d)}
                /\ msg'[c].toPrune = msg[c].toPrune \ {d}
          /\ msg'[c].failed = msg[c].failed
          /\ msg'[c].pc = "done" <=> msg'[c].toPrune = {}

C29_PruneOnlyStale ==
    /\ [](\A c \in Actives : msg[c].toPrune \cap msg[c].failed = {})
    /\ [][\A c \in Actives : C29_SendStep(c) /\ C29_PruneStep(c)]_vars

\* a broadcast has ended that reached a member, failed otherwise for an
\* open member, whose record is kept, and got 410 for a closed one, whose
\* record is gone
C29_Witness ==
    \E c \in Actives : \E d \in Actives : \E a \in Conns \ {d} :
       /\ msg[c].pc = "done" /\ msg[c].status = 200
       /\ a \in msg[c].failed /\ alive[a] /\ Holds(a, msg[c].roomId)
       /\ d \in msg[c].posted /\ ~alive[d] /\ ~Holds(d, msg[c].roomId)
       /\ \E b \in msg[c].posted \ {a, d} : alive[b] /\ Holds(b, msg[c].roomId)

\* --------------------------------------------------- claims: the clients
\* C23: an offer, answer or ICE candidate a client's WebRTCManager sends
\* for user u, u a member with an open connection, is answered 200 by the
\* relay, posted to u's connection, and the message posted is one the
\* client dispatches to the handler of its kind.
C23_WebRTCRelayed ==
    \A c \in Actives :
       (/\ msg[c].pc = "done" /\ msg[c].type \in WebRTCKinds
        /\ \E x \in store : x.userId = msg[c].targetUserId /\ alive[x.connectionId])
          => /\ msg[c].status = 200
             /\ \E x \in store : x.userId = msg[c].targetUserId
                                  /\ x.connectionId = msg[c].data.to
             /\ ClientHandler(msg[c].data.type) = ClientHandler(msg[c].type)

\* C24: a call of initiateReconnection makes at most maxReconnectionAttempts
\* calls of attemptReconnection, and when it has ended through
\* reconnectionSuccess or reconnectionFailed and no other call is under
\* way, isReconnecting is false.
C24_ReconnectionBounded ==
    /\ \A r \in Runs : eh.run[r].made <= MaxReconnectionAttempts
    /\ (\A r \in Runs : eh.run[r].pc \in {"idle", "ended"})
          => (eh.isReconnecting => \A r \in Runs : eh.run[r].ended \in {"no", "guard"})

\* Operation i is applied in this step.
AppliedIn(i) == sync'.op[i].times > sync.op[i].times

\* C25: no queued operation is applied to the collaboration engine or the
\* presence manager while isOnline is false.
C25_ApplyStep == (\E i \in OpIds : AppliedIn(i)) => sync'.isOnline

C25_AppliedOnlyOnline == [][C25_ApplyStep]_vars

\* C26: the sync queue never holds more than maxOfflineOperations entries,
\* and a call of queueOfflineOperation leaves the new operation last and
\* before it the former queue in its order, less its oldest entry when and
\* only when the queue was full.
C26_QueueStep ==
    sync'.created = sync.created + 1 =>
        LET old == sync.syncQueue
            new == sync'.syncQueue
        IN /\ Len(new) >= 1
           /\ new[Len(new)] = sync'.created
           /\ \E k \in {0, 1} :
                 /\ k = 1 <=> Len(old) >= MaxOfflineOperations
                 /\ Len(new) - 1 = Len(old) - k
                 /\ \A j \in 1..(Len(new) - 1) : new[j] = old[j + k]

C26_QueueBounded ==
    /\ [](Len(sync.syncQueue) <= MaxOfflineOperations)
    /\ [][C26_QueueStep]_vars

\* A call of queueOfflineOperation has dropped the oldest of a full queue.
C26_Witness ==
    /\ Len(sync.syncQueue) = MaxOfflineOperations
    /\ sync.created = MaxOfflineOperations + 1
    /\ sync.syncQueue[1] = 2

\* The peer connections made for user u and not closed.
OpenFor(u) == {p \in Pcs : rtc.pc[p].state = "open" /\ rtc.pc[p].userId = u}

\* C27: for every remote user at most one peer connection is open, and it
\* is the one the map holds; a call of initiateConnection or handleOffer for
\* a user the map holds a connection for creates nothing and sends nothing.
C27_DuplicateStep ==
    (rtc'.last # rtc.last /\ rtc'.last.existed) =>
        /\ rtc'.created = rtc.created
        /\ rtc'.sent = rtc.sent
        /\ rtc'.connections = rtc.connections
        /\ rtc'.pc = rtc.pc

C27_OnePerUser ==
    /\ [](\A u \in Users : OpenFor(u) = {rtc.connections[u]} \ {0})
    /\ [][C27_DuplicateStep]_vars

\* A call for a user whose connection exists has returned, after an earlier
\* connection for that user was closed and replaced.
C27_Witness ==
    /\ rtc.last.existed
    /\ rtc.connections[rtc.last.userId] # 0
    /\ \E p \in Pcs : rtc.pc[p].state = "closed" /\ rtc.pc[p].userId = rtc.last.userId

\* C28: isInitialized becomes true only at the end of a connect() whose
\* steps all succeeded and false only at the end of a disconnect() that
\* succeeded or of destroy(); connect() while initialized is rejected and
\* calls no signaling.connect(), a failed connect() and a failed
\* disconnect() leave the flag as it was, the latter true, and disconnect()
\* while not initialized changes nothing.
C28_Step ==
    LET was == core.isInitialized
        is == core'.isInitialized
        done == core'.last.n # core.last.n
        end == [op |-> core'.last.op, result |-> core'.last.result]
        untouched == /\ core'.connects = core.connects
                     /\ core'.connecting = core.connecting
                     /\ core'.connected = core.connected
    IN /\ (~was /\ is) => (done /\ end = [op |-> "connect", result |-> "ok"])
       /\ (was /\ ~is) => (done /\ end \in {[op |-> "disconnect", result |-> "ok"],
                                             [op |-> "destroy", result |-> "ok"]})
       /\ (done /\ was /\ core'.connecting = core.connecting /\ end.op = "connect")
             => (end.result = "Already connected" /\ is /\ untouched)
       /\ (done /\ end = [op |-> "connect", result |-> "failed"]) => is = was
       /\ (done /\ end = [op |-> "disconnect", result |-> "failed"]) => (was /\ is)
       /\ (done /\ ~was /\ end.op = "disconnect")
             => (end.result = "nothing" /\ ~is /\ untouched)

C31_ReadStep ==
    \A c \in Actives :
        LET r == msg[c].roomId
            moved(from) == msg[c].pc = from /\ msg'[c].pc # from
        IN /\ moved("jr_check") => msg'[c].seenN = Cardinality(Live(RoomUsers(r)))
           /\ moved("roster") => msg'[c].roster = UserList(Live(RoomUsers(r)))
           /\ moved("bc_read") => msg'[c].recips \subseteq ConnsOf(Live(RoomUsers(r)))
           /\ (moved("sg_scan") /\ msg'[c].pc = "sg_post")
                 => msg'[c].to \in ConnsOf(Live(TargetItems(msg[c].targetUserId)))

C31_ExpiredIsAbsent == [][C31_ReadStep]_vars

\* C39: a join-room of a connection that holds a record in the room is not
\* refused for the room being full.
C39_RejoinStep ==
    \A c \in Actives :
        (/\ msg[c].pc = "jr_check"
         /\ msg'[c].pc = "done"
         /\ msg'[c].error = "Room is full") => ~Holds(c, msg[c].roomId)

C39_RejoinAccepted == [][C39_RejoinStep]_vars

\* The reconnection loops under way: performing an attempt or sleeping
\* between attempts.
ActiveRuns == {r \in Runs : eh.run[r].pc \in {"attempt", "sleep"}}

\* C32: a call of initiateReconnection from an error, a health check or a
\* page-visible event while isReconnecting is true returns at once: it makes
\* no attempt, and leaves reconnectionAttempts, isReconnecting and the runs
\* under way as they are.
C32_GuardStep ==
    \A r \in Runs :
        (/\ eh.run[r].pc = "idle" /\ eh'.run[r].pc # "idle"
         /\ eh'.run[r].reason = "event"
         /\ eh.isReconnecting)
        => /\ eh'.run[r] = [reason |-> "event", pc |-> "ended", made |-> 0, ended |-> "guard"]
           /\ eh'.reconnectionAttempts = eh.reconnectionAttempts
           /\ eh'.isReconnecting
           /\ \A q \in Runs \ {r} : eh'.run[q] = eh.run[q]

C32_NoSecondRun == [][C32_GuardStep]_vars

\* A call was turned away while another run had made attempts.
C32_Witness ==
    \E r, q \in Runs :
        /\ eh.run[r].ended = "guard"
        /\ eh.run[q].pc = "sleep" /\ eh.run[q].made >= 2
        /\ eh.reconnectionAttempts = eh.run[q].made

\* C33: a run ends through reconnectionFailed only after it has made
\* maxReconnectionAttempts attempts.
C33_FailedAfterMax ==
    \A r \in Runs : eh.run[r].ended = "failed" => eh.run[r].made >= MaxReconnectionAttempts

\* C35: at most one reconnection loop is under way at any time.
C35_OneLoop == Cardinality(ActiveRuns) <= 1

\* C34: an operation is marked failed exactly when its retryCount has
\* reached syncRetryAttempts, and no operation is applied while it is
\* marked failed.
C34_ApplyStep == \A i \in OpIds : AppliedIn(i) => sync.op[i].status # "failed"

C34_FailedNotApplied ==
    /\ [](\A i \in OpIds :
            sync.op[i].status = "failed" <=> sync.op[i].retryCount >= SyncRetryAttempts)
    /\ [][C34_ApplyStep]_vars

\* C36: no operation is applied after an application of it has succeeded.
C36_AppliedOnce == \A i \in OpIds : sync.op[i].times <= 1

\* C38: once disconnect() was called, the service creates no WebSocket and
\* sends no join-room.
C38_AfterDisconnectStep ==
    react.disconnected => /\ react'.created = react.created
                          /\ react'.joins = react.joins

C38_DisconnectIsFinal == [][C38_AfterDisconnectStep]_vars

\* Both peers have called initiateConnection for the other before the
\* other's offer arrived.
Glare == \A a \in Users : pair.peer[a].role = "offer"

\* Both connections have their local and their remote description.
Established == \A a \in Users : pair.peer[a].local /\ pair.peer[a].remote

\* C37: when both peers have initiated, the negotiation completes.
C37_GlareCompletes == Glare ~> Established

====
